---- MODULE Spec2Model ----
(***************************************************************************)
(* Model of imectools' command line (src/src/imectools/cli.py): the        *)
(* `clean` command (one cleanup run of a local directory or of a mounted   *)
(* smb:// share) and the `clean-many` command (one cleanup run per station *)
(* of a manifest, on a thread pool).                                       *)
(*                                                                         *)
(* Strings that the code takes apart (target addresses) are sequences of   *)
(* one-character strings.  Paths below the cleaned directory are sequences *)
(* of path components; the cleaned directory itself is the empty sequence. *)
(***************************************************************************)
EXTENDS Integers, Sequences, FiniteSets, TLC

VARIABLES
    cmd,        \* the command of this process, and the --force of clean-many
    manifest,   \* clean_many: the loaded JSON object, as a sequence of values
    args,       \* the argument tuple of each clean run, by station
    dpc,        \* position of the main thread
    exit_code,  \* exit code of the process once it has ended, else -1
    pc,         \* position of each clean run
    exc,        \* the exception each run is raising, or "none"
    context,    \* clean's local `context`: "None" or "mount"
    mounted,    \* whether the share of the run is mounted at the moment
    smb,        \* what the run passed to mount_smb: <<server, share, user>>
    old_files,  \* clean's local `old_files`
    idx,        \* position of the deletion loop in old_files
    count,      \* clean's local `count` (Unbound before its assignment)
    errs,       \* clean's local `errs`  (Unbound before its assignment)
    walk,       \* directories the empty-directory generator has yet to visit
    fs,         \* the directory tree behind each target
    fs0,        \* the directory tree behind each target when the process began
    log,        \* history of each run: mount, file-system and prompt events
    reported    \* clean_many: stations for which "Failed to clean" was printed

vars == <<cmd, manifest, args, dpc, exit_code, pc, exc, context, mounted, smb,
          old_files, idx, count, errs, walk, fs, fs0, log, reported>>

(***************************************************************************)
(* Bounds of the model.                                                    *)
(***************************************************************************)
MaxFiles == 2       \* files in a directory tree at the start
MaxManifest == 2    \* entries of a clean-many manifest
MaxAddr == 4        \* characters of a target address after smb://
PoolExtra == 1      \* entries of a manifest beyond the size of the pool

(***************************************************************************)
(* Program constants.                                                      *)
(***************************************************************************)
max_workers == 8
DefaultDays == 60
SchemeLen == 6

NULL == <<"null">>
Unbound == -1

Stations == 1..MaxManifest

(***************************************************************************)
(* Strings.                                                                *)
(***************************************************************************)
SMB == <<"s", "m", "b", ":", "/", "/">>
DefaultShare == <<"d", "a", "t", "a">>
DefaultUser == <<"A", "d", "m", "i", "n">>
DataSuffix == <<"/", "d", "a", "t", "a">>

StartsWith(s, p) == Len(s) >= Len(p) /\ SubSeq(s, 1, Len(p)) = p

Drop(s, n) == SubSeq(s, n + 1, Len(s))

HasChar(c, s) == \E k \in 1..Len(s) : s[k] = c

\* position of the first c in s, 0 when there is none
RECURSIVE FirstIndex(_, _, _)
FirstIndex(s, c, k) ==
    IF k > Len(s) THEN 0
    ELSE IF s[k] = c THEN k
    ELSE FirstIndex(s, c, k + 1)

\* str.split(sep) for a one-character separator
RECURSIVE Split(_, _)
Split(s, sep) ==
    LET k == FirstIndex(s, sep, 1)
    IN  IF k = 0 THEN <<s>>
        ELSE <<SubSeq(s, 1, k - 1)>> \o Split(Drop(s, k), sep)

\* ParseRemote without the check of the user name for ':'
ParseRemote_NoColonCheck(directory) ==
    LET parts == Split(Drop(directory, SchemeLen), "/")
        server0 == Head(parts)
        rest == Tail(parts)
        share == IF rest # <<>> THEN rest[1] ELSE DefaultShare
        at == Split(server0, "@")
        unpack == HasChar("@", server0) /\ Len(at) # 2
        user == IF HasChar("@", server0) /\ ~unpack THEN at[1] ELSE DefaultUser
        server == IF HasChar("@", server0) /\ ~unpack THEN at[2] ELSE server0
    IN  IF unpack THEN [err |-> "ValueError", server |-> <<>>, share |-> <<>>, user |-> <<>>]
        ELSE [err |-> "none", server |-> server, share |-> share, user |-> user]

\* ParseRemote unpacking the split at '@' as server, user
ParseRemote_Swapped(directory) ==
    LET parts == Split(Drop(directory, SchemeLen), "/")
        server0 == Head(parts)
        rest == Tail(parts)
        share == IF rest # <<>> THEN rest[1] ELSE DefaultShare
        at == Split(server0, "@")
        unpack == HasChar("@", server0) /\ Len(at) # 2
        user == IF HasChar("@", server0) /\ ~unpack THEN at[2] ELSE DefaultUser
        server == IF HasChar("@", server0) /\ ~unpack THEN at[1] ELSE server0
    IN  IF unpack THEN [err |-> "ValueError", server |-> <<>>, share |-> <<>>, user |-> <<>>]
        ELSE IF HasChar(":", user)
             THEN [err |-> "ValueError", server |-> <<>>, share |-> <<>>, user |-> <<>>]
        ELSE [err |-> "none", server |-> server, share |-> share, user |-> user]

\* the address parsing of clean: the arguments of mount_smb, or the error raised
ParseRemote(directory) ==
    LET parts == Split(Drop(directory, SchemeLen), "/")
        server0 == Head(parts)
        rest == Tail(parts)
        share == IF rest # <<>> THEN rest[1] ELSE DefaultShare
        at == Split(server0, "@")
        unpack == HasChar("@", server0) /\ Len(at) # 2
        user == IF HasChar("@", server0) /\ ~unpack THEN at[1] ELSE DefaultUser
        server == IF HasChar("@", server0) /\ ~unpack THEN at[2] ELSE server0
    IN  IF unpack THEN [err |-> "ValueError", server |-> <<>>, share |-> <<>>, user |-> <<>>]
        ELSE IF HasChar(":", user)
             THEN [err |-> "ValueError", server |-> <<>>, share |-> <<>>, user |-> <<>>]
        ELSE [err |-> "none", server |-> server, share |-> share, user |-> user]

IsRemote(directory) == StartsWith(directory, SMB)

(***************************************************************************)
(* Exceptions.  typer.Exit and typer.Abort are RuntimeErrors, so both are  *)
(* instances of Exception; KeyboardInterrupt is not.                       *)
(***************************************************************************)
Exit(code) == IF code = 0 THEN "Exit0" ELSE "Exit1"

IsException(e) == e \in {"Exit0", "Exit1", "Abort", "ValueError", "MountError",
                         "OSError", "UnboundLocalError"}

\* exceptions a blocking file-system call of run t can raise out of clean
\* (a process interrupt reaches only the main thread)
Interrupts == IF cmd.name = "clean" THEN {"KeyboardInterrupt"} ELSE {}

(***************************************************************************)
(* Directory trees.                                                        *)
(***************************************************************************)
Root == <<>>
FileUniverse == {<<"a.tif">>, <<"b.tif">>, <<"sub", "c.tif">>,
                 <<"sub", "deep", "d.tif">>, <<"nodelete", "e.tif">>}
DirUniverse == {<<"sub">>, <<"sub", "deep">>, <<"nodelete">>}
Ages == {10, 100}
SkipTokens == {"delete", "deep"}

Parent(p) == SubSeq(p, 1, Len(p) - 1)

\* the pairs <<name, token>> with token a substring of name
Substrings == {<<"nodelete", "delete">>, <<"deep", "deep">>}

\* `skip in str(path)` for the part of the path below the cleaned directory
PathContains(p, skip) == \E k \in 1..Len(p) : <<p[k], skip>> \in Substrings

NoTree(kind) == [kind |-> kind, dirs |-> {}, files |-> <<>>]

ClosedDirs == {D \in SUBSET DirUniverse : \A d \in D : Parent(d) \in D \cup {Root}}

Trees ==
    UNION {UNION {{[kind |-> "dir", dirs |-> D, files |-> f] : f \in [F -> Ages]} :
                  F \in {G \in SUBSET FileUniverse :
                            /\ Cardinality(G) <= MaxFiles
                            /\ \A p \in G : Parent(p) \in D \cup {Root}}} :
           D \in ClosedDirs}

Files(tree) == DOMAIN tree.files

Entries(tree, d) == {p \in Files(tree) \cup tree.dirs : Parent(p) = d}

Unlinked(tree, p) ==
    [tree EXCEPT !.files = [q \in Files(tree) \ {p} |-> tree.files[q]]]

Removed(tree, d) == [tree EXCEPT !.dirs = @ \ {d}]

Perms(S) == {s \in [1..Cardinality(S) -> S] :
                \A j, k \in 1..Cardinality(S) : j # k => s[j] # s[k]}

IsAncestor(a, d) == Len(a) < Len(d) /\ SubSeq(d, 1, Len(a)) = a

\* iter_old_files: files older than `days` whose path does not contain `skip`
OldFiles(tree, days, skip) ==
    {p \in Files(tree) : tree.files[p] > days /\ ~PathContains(p, skip)}

\* iter_empty_dirs: the orders in which a bottom-up walk can visit the directories
BottomUp(tree) ==
    {s \in Perms(tree.dirs) :
        \A j, k \in 1..Len(s) : IsAncestor(s[j], s[k]) => k < j}

\* iter_empty_dirs: whether the visited directory d is yielded
IsEmptyDir(tree, d, skip) ==
    d \in tree.dirs /\ Entries(tree, d) = {} /\ ~PathContains(d, skip)

(***************************************************************************)
(* Inputs.                                                                 *)
(***************************************************************************)
LocalDir == <<"/", "x">>
ValidRemotes == {SMB \o <<"h">>, SMB \o <<"u", "@", "h", "/", "d">>}
BadRemotes == {SMB \o <<"u", ":", "p", "@", "h">>, SMB \o <<"u", "@", "v", "@", "h">>}
Days == {DefaultDays}

Hosts == {<<"h">>}
BadHosts == {<<"u", ":", "p", "@", "h">>}
ManifestValues == {NULL} \cup Hosts \cup BadHosts

Manifests == UNION {[1..n -> ManifestValues] : n \in 0..MaxManifest}

\* the shares of the stations of a manifest
FleetTrees ==
    {[kind |-> "dir", dirs |-> {}, files |-> <<>>],
     [kind |-> "dir", dirs |-> {}, files |-> [p \in {<<"a.tif">>} |-> 100]],
     [kind |-> "dir", dirs |-> {<<"sub">>}, files |-> [p \in {<<"sub", "c.tif">>} |-> 100]]}

CleanArgs ==
    [directory : {LocalDir} \cup ValidRemotes \cup BadRemotes, days : Days,
     dry_run : BOOLEAN, force : BOOLEAN, delete_empty_dirs : BOOLEAN,
     skip : SkipTokens]

\* the trees that can be behind the target of `clean`
TargetTrees(directory) ==
    IF directory = LocalDir THEN Trees \cup {NoTree("file"), NoTree("missing")}
    ELSE IF directory \in ValidRemotes THEN Trees
    ELSE {NoTree("missing")}

StationTrees(ip) == IF ip \in Hosts THEN FleetTrees ELSE {NoTree("missing")}

\* the locals of the runs of the stations S before any of them has run
InitLocalsOver(S) ==
    /\ exit_code = -1
    /\ exc = [t \in S |-> "none"]
    /\ context = [t \in S |-> "None"]
    /\ mounted = [t \in S |-> FALSE]
    /\ smb = [t \in S |-> <<>>]
    /\ old_files = [t \in S |-> <<>>]
    /\ idx = [t \in S |-> 0]
    /\ count = [t \in S |-> Unbound]
    /\ errs = [t \in S |-> Unbound]
    /\ walk = [t \in S |-> <<>>]
    /\ log = [t \in S |-> <<>>]
    /\ reported = {}

InitLocals == InitLocalsOver(Stations)

\* `imec clean DIRECTORY [options]`
InitClean ==
    /\ cmd = [name |-> "clean", force |-> FALSE]
    /\ manifest = <<>>
    /\ \E a \in CleanArgs : args = [t \in {1} |-> a]
    /\ dpc = "clean"
    /\ pc = [t \in Stations |-> IF t = 1 THEN "resolve" ELSE "none"]
    /\ \E tree \in TargetTrees(args[1].directory) :
          fs = [t \in Stations |-> IF t = 1 THEN tree ELSE NoTree("missing")]
    /\ fs0 = fs
    /\ InitLocals

\* `imec clean-many IP_FILE [--force]`, once the manifest is loaded
InitCleanMany ==
    /\ \E f \in BOOLEAN : cmd = [name |-> "clean_many", force |-> f]
    /\ manifest \in Manifests
    /\ args = <<>>
    /\ dpc = "dispatch"
    /\ pc = [t \in Stations |-> "none"]
    /\ fs \in [Stations -> FleetTrees \cup {NoTree("missing")}]
    /\ \A t \in Stations :
          fs[t] \in (IF t \in DOMAIN manifest THEN StationTrees(manifest[t])
                     ELSE {NoTree("missing")})
    /\ fs0 = fs
    /\ InitLocals

Init == InitClean \/ InitCleanMany

(***************************************************************************)
(* clean                                                                   *)
(***************************************************************************)
\* an entry of log: the operation, its path, whether it succeeded and, when it
\* did not and the error left the statement, the exception that left it
Event(op, path, ok, raised) == [op |-> op, path |-> path, ok |-> ok, raised |-> raised]

Logged(t, e) == log' = [log EXCEPT ![t] = Append(@, e)]

\* an exception raised inside the try block runs the finally clause first
RaiseInTry(t, e) ==
    /\ exc' = [exc EXCEPT ![t] = e]
    /\ pc' = [pc EXCEPT ![t] = "finally"]

\* an exception raised before the try block leaves clean at once
RaiseOutside(t, e) ==
    /\ exc' = [exc EXCEPT ![t] = e]
    /\ pc' = [pc EXCEPT ![t] = "raised"]

\* Resolve with context.__enter__() moved inside the try block: a failed mount
\* reaches the finally clause with context set
Resolve_EnterInsideTry(t) ==
    /\ pc[t] = "resolve"
    /\ LET directory == args[t].directory
           parsed == ParseRemote(directory)
       IN  IF IsRemote(directory)
           THEN IF parsed.err # "none"
                THEN /\ RaiseOutside(t, parsed.err)
                     /\ UNCHANGED <<context, mounted, smb, log>>
                ELSE /\ smb' = [smb EXCEPT ![t] = <<parsed.server, parsed.share, parsed.user>>]
                     /\ context' = [context EXCEPT ![t] = "mount"]
                     /\ \/ /\ fs[t].kind = "dir"
                           /\ mounted' = [mounted EXCEPT ![t] = TRUE]
                           /\ Logged(t, Event("mount", Root, TRUE, "none"))
                           /\ pc' = [pc EXCEPT ![t] = "scan"]
                           /\ UNCHANGED exc
                        \/ /\ RaiseInTry(t, "MountError")
                           /\ UNCHANGED <<mounted, log>>
           ELSE /\ IF fs[t].kind = "dir"
                   THEN pc' = [pc EXCEPT ![t] = "scan"] /\ UNCHANGED exc
                   ELSE RaiseOutside(t, Exit(0))
                /\ UNCHANGED <<context, mounted, smb, log>>
    /\ UNCHANGED <<cmd, manifest, args, dpc, exit_code, old_files, idx, count,
                   errs, walk, fs, fs0, reported>>

\* lines 85-109: parse the address and mount the share, or check the local path
Resolve(t) ==
    /\ pc[t] = "resolve"
    /\ LET directory == args[t].directory
           parsed == ParseRemote(directory)
       IN  IF IsRemote(directory)
           THEN IF parsed.err # "none"
                THEN /\ RaiseOutside(t, parsed.err)
                     /\ UNCHANGED <<context, mounted, smb, log>>
                ELSE /\ smb' = [smb EXCEPT ![t] = <<parsed.server, parsed.share, parsed.user>>]
                     /\ \/ /\ fs[t].kind = "dir"
                           /\ context' = [context EXCEPT ![t] = "mount"]
                           /\ mounted' = [mounted EXCEPT ![t] = TRUE]
                           /\ Logged(t, Event("mount", Root, TRUE, "none"))
                           /\ pc' = [pc EXCEPT ![t] = "scan"]
                           /\ UNCHANGED exc
                        \/ /\ RaiseOutside(t, "MountError")
                           /\ UNCHANGED <<context, mounted, log>>
           ELSE /\ IF fs[t].kind = "dir"
                   THEN pc' = [pc EXCEPT ![t] = "scan"] /\ UNCHANGED exc
                   ELSE RaiseOutside(t, Exit(0))
                /\ UNCHANGED <<context, mounted, smb, log>>
    /\ UNCHANGED <<cmd, manifest, args, dpc, exit_code, old_files, idx, count,
                   errs, walk, fs, fs0, reported>>

\* Scan with the mount held only around the scan (a `with` block closed there)
Scan_WithBlock(t) ==
    /\ pc[t] = "scan"
    /\ \/ /\ \E order \in Perms(OldFiles(fs[t], args[t].days, args[t].skip)) :
                old_files' = [old_files EXCEPT ![t] = order]
          /\ log' = [log EXCEPT ![t] =
                        IF context[t] # "None"
                        THEN @ \o <<Event("scan", Root, TRUE, "none"),
                                    Event("umount", Root, TRUE, "none")>>
                        ELSE Append(@, Event("scan", Root, TRUE, "none"))]
          /\ mounted' = [mounted EXCEPT ![t] = FALSE]
          /\ context' = [context EXCEPT ![t] = "None"]
          /\ pc' = [pc EXCEPT ![t] = "check_empty"]
          /\ UNCHANGED exc
       \/ /\ \E e \in {"OSError"} \cup Interrupts :
                /\ RaiseInTry(t, e)
                /\ Logged(t, Event("scan", Root, FALSE, e))
          /\ UNCHANGED <<old_files, mounted, context>>
    /\ UNCHANGED <<cmd, manifest, args, dpc, exit_code, smb,
                   idx, count, errs, walk, fs, fs0, reported>>

\* line 112: old_files = list(iter_old_files(...))
Scan(t) ==
    /\ pc[t] = "scan"
    /\ \/ /\ \E order \in Perms(OldFiles(fs[t], args[t].days, args[t].skip)) :
                old_files' = [old_files EXCEPT ![t] = order]
          /\ Logged(t, Event("scan", Root, TRUE, "none"))
          /\ pc' = [pc EXCEPT ![t] = "check_empty"]
          /\ UNCHANGED exc
       \/ /\ \E e \in {"OSError"} \cup Interrupts :
                /\ RaiseInTry(t, e)
                /\ Logged(t, Event("scan", Root, FALSE, e))
          /\ UNCHANGED old_files
    /\ UNCHANGED <<cmd, manifest, args, dpc, exit_code, context, mounted, smb,
                   idx, count, errs, walk, fs, fs0, reported>>

\* CheckEmpty without the early exit on an empty candidate list
CheckEmpty_NoExit(t) ==
    /\ pc[t] = "check_empty"
    /\ pc' = [pc EXCEPT ![t] = "check_dry_run"]
    /\ UNCHANGED <<cmd, manifest, args, dpc, exit_code, exc, context, mounted, smb,
                   old_files, idx, count, errs, walk, fs, fs0, log, reported>>

\* lines 115-121: nothing to delete
CheckEmpty(t) ==
    /\ pc[t] = "check_empty"
    /\ IF old_files[t] = <<>>
       THEN RaiseInTry(t, Exit(0))
       ELSE pc' = [pc EXCEPT ![t] = "check_dry_run"] /\ UNCHANGED exc
    /\ UNCHANGED <<cmd, manifest, args, dpc, exit_code, context, mounted, smb,
                   old_files, idx, count, errs, walk, fs, fs0, log, reported>>

\* CheckDryRun with force taking precedence over dry_run
CheckDryRun_UnlessForce(t) ==
    /\ pc[t] = "check_dry_run"
    /\ IF args[t].dry_run /\ ~args[t].force
       THEN RaiseInTry(t, Exit(0))
       ELSE pc' = [pc EXCEPT ![t] = "confirm"] /\ UNCHANGED exc
    /\ UNCHANGED <<cmd, manifest, args, dpc, exit_code, context, mounted, smb,
                   old_files, idx, count, errs, walk, fs, fs0, log, reported>>

\* lines 124-128: dry run
CheckDryRun(t) ==
    /\ pc[t] = "check_dry_run"
    /\ IF args[t].dry_run
       THEN RaiseInTry(t, Exit(0))
       ELSE pc' = [pc EXCEPT ![t] = "confirm"] /\ UNCHANGED exc
    /\ UNCHANGED <<cmd, manifest, args, dpc, exit_code, context, mounted, smb,
                   old_files, idx, count, errs, walk, fs, fs0, log, reported>>

\* Confirm without abort=True: the answer is asked for and dropped
Confirm_NoAbort(t) ==
    /\ pc[t] = "confirm"
    /\ IF args[t].force
       THEN UNCHANGED log
       ELSE \E answer \in BOOLEAN : Logged(t, Event("prompt", Root, answer, "none"))
    /\ pc' = [pc EXCEPT ![t] = "delete"]
    /\ idx' = [idx EXCEPT ![t] = 1]
    /\ UNCHANGED <<cmd, manifest, args, dpc, exit_code, exc, context, mounted, smb,
                   old_files, count, errs, walk, fs, fs0, reported>>

\* lines 131-138: typer.confirm(msg, abort=True) unless force
Confirm(t) ==
    /\ pc[t] = "confirm"
    /\ IF args[t].force
       THEN /\ pc' = [pc EXCEPT ![t] = "delete"]
            /\ idx' = [idx EXCEPT ![t] = 1]
            /\ UNCHANGED <<exc, log>>
       ELSE \E answer \in BOOLEAN :
               /\ Logged(t, Event("prompt", Root, answer, "none"))
               /\ IF answer
                  THEN /\ pc' = [pc EXCEPT ![t] = "delete"]
                       /\ idx' = [idx EXCEPT ![t] = 1]
                       /\ UNCHANGED exc
                  ELSE /\ RaiseInTry(t, "Abort")
                       /\ UNCHANGED idx
    /\ UNCHANGED <<cmd, manifest, args, dpc, exit_code, context, mounted, smb,
                   old_files, count, errs, walk, fs, fs0, reported>>

\* Delete without the try/except around unlink: a failure leaves the loop
Delete_NoCatch(t) ==
    /\ pc[t] = "delete"
    /\ idx[t] <= Len(old_files[t])
    /\ LET old_file == old_files[t][idx[t]]
           next == IF idx[t] = Len(old_files[t]) THEN "check_reap" ELSE "delete"
       IN  \/ /\ fs' = [fs EXCEPT ![t] = Unlinked(@, old_file)]
              /\ count' = [count EXCEPT ![t] = 0 + 1]
              /\ errs' = [errs EXCEPT ![t] = 0]
              /\ Logged(t, Event("unlink", old_file, TRUE, "none"))
              /\ pc' = [pc EXCEPT ![t] = next]
              /\ idx' = [idx EXCEPT ![t] = @ + 1]
              /\ UNCHANGED exc
           \/ /\ \E e \in {"OSError"} \cup Interrupts :
                    /\ RaiseInTry(t, e)
                    /\ Logged(t, Event("unlink", old_file, FALSE, e))
              /\ count' = [count EXCEPT ![t] = 0]
              /\ errs' = [errs EXCEPT ![t] = 0]
              /\ UNCHANGED <<fs, idx>>
    /\ UNCHANGED <<cmd, manifest, args, dpc, exit_code, context, mounted, smb,
                   old_files, walk, fs0, reported>>

\* Delete with the reaping block inside the loop body: it runs after the first file
Delete_ReapInsideLoop(t) ==
    /\ pc[t] = "delete"
    /\ idx[t] <= Len(old_files[t])
    /\ LET old_file == old_files[t][idx[t]]
           next == "check_reap"
       IN  \/ /\ fs' = [fs EXCEPT ![t] = Unlinked(@, old_file)]
              /\ count' = [count EXCEPT ![t] = 0 + 1]
              /\ errs' = [errs EXCEPT ![t] = 0]
              /\ Logged(t, Event("unlink", old_file, TRUE, "none"))
              /\ pc' = [pc EXCEPT ![t] = next]
              /\ idx' = [idx EXCEPT ![t] = @ + 1]
              /\ UNCHANGED exc
           \/ /\ count' = [count EXCEPT ![t] = 0]
              /\ errs' = [errs EXCEPT ![t] = 0 + 1]
              /\ Logged(t, Event("unlink", old_file, FALSE, "none"))
              /\ pc' = [pc EXCEPT ![t] = next]
              /\ idx' = [idx EXCEPT ![t] = @ + 1]
              /\ UNCHANGED <<fs, exc>>
           \/ /\ \E e \in Interrupts :
                    /\ RaiseInTry(t, e)
                    /\ Logged(t, Event("unlink", old_file, FALSE, e))
              /\ count' = [count EXCEPT ![t] = 0]
              /\ errs' = [errs EXCEPT ![t] = 0]
              /\ UNCHANGED <<fs, idx>>
    /\ UNCHANGED <<cmd, manifest, args, dpc, exit_code, context, mounted, smb,
                   old_files, walk, fs0, reported>>

\* Delete looping over old_files[:-1]: the last candidate is never attempted
Delete_AllButLast(t) ==
    /\ pc[t] = "delete"
    /\ idx[t] <= Len(old_files[t])
    /\ IF idx[t] = Len(old_files[t])
       THEN /\ pc' = [pc EXCEPT ![t] = "check_reap"]
            /\ UNCHANGED <<fs, count, errs, log, idx, exc>>
       ELSE LET old_file == old_files[t][idx[t]]
            IN  \/ /\ fs' = [fs EXCEPT ![t] = Unlinked(@, old_file)]
                   /\ count' = [count EXCEPT ![t] = 0 + 1]
                   /\ errs' = [errs EXCEPT ![t] = 0]
                   /\ Logged(t, Event("unlink", old_file, TRUE, "none"))
                   /\ idx' = [idx EXCEPT ![t] = @ + 1]
                   /\ UNCHANGED <<pc, exc>>
                \/ /\ count' = [count EXCEPT ![t] = 0]
                   /\ errs' = [errs EXCEPT ![t] = 0 + 1]
                   /\ Logged(t, Event("unlink", old_file, FALSE, "none"))
                   /\ idx' = [idx EXCEPT ![t] = @ + 1]
                   /\ UNCHANGED <<fs, pc, exc>>
                \/ /\ \E e \in Interrupts :
                         /\ RaiseInTry(t, e)
                         /\ Logged(t, Event("unlink", old_file, FALSE, e))
                   /\ count' = [count EXCEPT ![t] = 0]
                   /\ errs' = [errs EXCEPT ![t] = 0]
                   /\ UNCHANGED <<fs, idx>>
    /\ UNCHANGED <<cmd, manifest, args, dpc, exit_code, context, mounted, smb,
                   old_files, walk, fs0, reported>>

\* lines 141-151: one iteration of the deletion loop
Delete(t) ==
    /\ pc[t] = "delete"
    /\ idx[t] <= Len(old_files[t])
    /\ LET old_file == old_files[t][idx[t]]
           next == IF idx[t] = Len(old_files[t]) THEN "check_reap" ELSE "delete"
       IN  \/ /\ fs' = [fs EXCEPT ![t] = Unlinked(@, old_file)]
              /\ count' = [count EXCEPT ![t] = 0 + 1]
              /\ errs' = [errs EXCEPT ![t] = 0]
              /\ Logged(t, Event("unlink", old_file, TRUE, "none"))
              /\ pc' = [pc EXCEPT ![t] = next]
              /\ idx' = [idx EXCEPT ![t] = @ + 1]
              /\ UNCHANGED exc
           \/ /\ count' = [count EXCEPT ![t] = 0]
              /\ errs' = [errs EXCEPT ![t] = 0 + 1]
              /\ Logged(t, Event("unlink", old_file, FALSE, "none"))
              /\ pc' = [pc EXCEPT ![t] = next]
              /\ idx' = [idx EXCEPT ![t] = @ + 1]
              /\ UNCHANGED <<fs, exc>>
           \/ /\ \E e \in Interrupts :
                    /\ RaiseInTry(t, e)
                    /\ Logged(t, Event("unlink", old_file, FALSE, e))
              /\ count' = [count EXCEPT ![t] = 0]
              /\ errs' = [errs EXCEPT ![t] = 0]
              /\ UNCHANGED <<fs, idx>>
    /\ UNCHANGED <<cmd, manifest, args, dpc, exit_code, context, mounted, smb,
                   old_files, walk, fs0, reported>>

\* lines 153-155: start the empty-directory generator if asked to
CheckReap(t) ==
    /\ pc[t] = "check_reap"
    /\ IF args[t].delete_empty_dirs
       THEN /\ \E order \in BottomUp(fs[t]) : walk' = [walk EXCEPT ![t] = order]
            /\ pc' = [pc EXCEPT ![t] = "reap"]
       ELSE /\ pc' = [pc EXCEPT ![t] = "report"]
            /\ UNCHANGED walk
    /\ UNCHANGED <<cmd, manifest, args, dpc, exit_code, exc, context, mounted,
                   smb, old_files, idx, count, errs, fs, fs0, log, reported>>

\* Reap without the try/except around rmdir: a failure leaves the loop
Reap_NoCatch(t) ==
    /\ pc[t] = "reap"
    /\ IF walk[t] = <<>>
       THEN /\ pc' = [pc EXCEPT ![t] = "report"]
            /\ UNCHANGED <<walk, fs, log, exc>>
       ELSE LET empty == Head(walk[t])
            IN  \/ /\ IsEmptyDir(fs[t], empty, args[t].skip)
                   /\ \/ /\ fs' = [fs EXCEPT ![t] = Removed(@, empty)]
                         /\ log' = [log EXCEPT ![t] =
                                       @ \o <<Event("walk", empty, TRUE, "none"),
                                              Event("rmdir", empty, TRUE, "none")>>]
                         /\ walk' = [walk EXCEPT ![t] = Tail(@)]
                         /\ UNCHANGED <<pc, exc>>
                      \/ /\ RaiseInTry(t, "OSError")
                         /\ log' = [log EXCEPT ![t] =
                                       @ \o <<Event("walk", empty, TRUE, "none"),
                                              Event("rmdir", empty, FALSE, "OSError")>>]
                         /\ UNCHANGED <<walk, fs>>
                \/ /\ ~IsEmptyDir(fs[t], empty, args[t].skip)
                   /\ Logged(t, Event("walk", empty, TRUE, "none"))
                   /\ walk' = [walk EXCEPT ![t] = Tail(@)]
                   /\ UNCHANGED <<pc, exc, fs>>
                \/ /\ \E e \in {"OSError"} \cup Interrupts :
                         /\ RaiseInTry(t, e)
                         /\ Logged(t, Event("walk", empty, FALSE, e))
                   /\ UNCHANGED <<walk, fs>>
    /\ UNCHANGED <<cmd, manifest, args, dpc, exit_code, context, mounted, smb,
                   old_files, idx, count, errs, fs0, reported>>

\* lines 155-164: the generator visits its next directory; a yielded one is removed
Reap(t) ==
    /\ pc[t] = "reap"
    /\ IF walk[t] = <<>>
       THEN /\ pc' = [pc EXCEPT ![t] = "report"]
            /\ UNCHANGED <<walk, fs, log, exc>>
       ELSE LET empty == Head(walk[t])
            IN  \/ /\ IsEmptyDir(fs[t], empty, args[t].skip)
                   /\ \E ok \in BOOLEAN :
                         /\ fs' = [fs EXCEPT ![t] = IF ok THEN Removed(@, empty) ELSE @]
                         /\ log' = [log EXCEPT ![t] =
                                       @ \o <<Event("walk", empty, TRUE, "none"),
                                              Event("rmdir", empty, ok, "none")>>]
                   /\ walk' = [walk EXCEPT ![t] = Tail(@)]
                   /\ UNCHANGED <<pc, exc>>
                \/ /\ ~IsEmptyDir(fs[t], empty, args[t].skip)
                   /\ Logged(t, Event("walk", empty, TRUE, "none"))
                   /\ walk' = [walk EXCEPT ![t] = Tail(@)]
                   /\ UNCHANGED <<pc, exc, fs>>
                \/ /\ \E e \in {"OSError"} \cup Interrupts :
                         /\ RaiseInTry(t, e)
                         /\ Logged(t, Event("walk", empty, FALSE, e))
                   /\ UNCHANGED <<walk, fs>>
    /\ UNCHANGED <<cmd, manifest, args, dpc, exit_code, context, mounted, smb,
                   old_files, idx, count, errs, fs0, reported>>

\* lines 166-173: print the summary and raise typer.Exit
Report(t) ==
    /\ pc[t] = "report"
    /\ IF count[t] = Unbound \/ errs[t] = Unbound
       THEN RaiseInTry(t, "UnboundLocalError")
       ELSE RaiseInTry(t, Exit(IF errs[t] # 0 THEN 1 ELSE 0))
    /\ UNCHANGED <<cmd, manifest, args, dpc, exit_code, context, mounted, smb,
                   old_files, idx, count, errs, walk, fs, fs0, log, reported>>

\* Finally as a release at the end of the body: reached by typer.Exit only
Finally_OnExitOnly(t) ==
    /\ pc[t] = "finally"
    /\ IF context[t] # "None" /\ exc[t] \in {"Exit0", "Exit1"}
       THEN /\ mounted' = [mounted EXCEPT ![t] = FALSE]
            /\ Logged(t, Event("umount", Root, TRUE, "none"))
       ELSE UNCHANGED <<mounted, log>>
    /\ pc' = [pc EXCEPT ![t] = "raised"]
    /\ UNCHANGED <<cmd, manifest, args, dpc, exit_code, exc, context, smb,
                   old_files, idx, count, errs, walk, fs, fs0, reported>>

\* Finally with `context` a module global shared by the runs: the exit of one
\* run tears down every mount
Finally_SharedContext(t) ==
    /\ pc[t] = "finally"
    /\ IF context[t] # "None"
       THEN /\ mounted' = [u \in DOMAIN mounted |-> FALSE]
            /\ Logged(t, Event("umount", Root, TRUE, "none"))
       ELSE UNCHANGED <<mounted, log>>
    /\ pc' = [pc EXCEPT ![t] = "raised"]
    /\ UNCHANGED <<cmd, manifest, args, dpc, exit_code, exc, context, smb,
                   old_files, idx, count, errs, walk, fs, fs0, reported>>

\* lines 174-176: the finally clause, after which the exception leaves clean
Finally(t) ==
    /\ pc[t] = "finally"
    /\ IF context[t] # "None"
       THEN /\ mounted' = [mounted EXCEPT ![t] = FALSE]
            /\ Logged(t, Event("umount", Root, TRUE, "none"))
       ELSE UNCHANGED <<mounted, log>>
    /\ pc' = [pc EXCEPT ![t] = "raised"]
    /\ UNCHANGED <<cmd, manifest, args, dpc, exit_code, exc, context, smb,
                   old_files, idx, count, errs, walk, fs, fs0, reported>>

\* lines 228-230: the exception of the `clean` command ends the process
ExitCode(e) == IF e = "Exit0" THEN 0 ELSE 1

CleanExit ==
    /\ cmd.name = "clean"
    /\ dpc = "clean"
    /\ pc[1] = "raised"
    /\ dpc' = "exited"
    /\ exit_code' = ExitCode(exc[1])
    /\ pc' = [pc EXCEPT ![1] = "done"]
    /\ UNCHANGED <<cmd, manifest, args, exc, context, mounted, smb, old_files,
                   idx, count, errs, walk, fs, fs0, log, reported>>

(***************************************************************************)
(* clean_many                                                              *)
(***************************************************************************)
\* ManyArgs without the `if ip is not None` filter
ManyArgs_NoFilter(data, force) ==
    [t \in DOMAIN data |->
        [directory |-> SMB \o data[t] \o DataSuffix, days |-> DefaultDays,
         dry_run |-> FALSE, force |-> force, delete_empty_dirs |-> TRUE,
         skip |-> "delete"]]

\* lines 210-214: the argument tuples, one per entry with an address
ManyArgs(data, force) ==
    [t \in {k \in DOMAIN data : data[k] # NULL} |->
        [directory |-> SMB \o data[t] \o DataSuffix, days |-> DefaultDays,
         dry_run |-> FALSE, force |-> force, delete_empty_dirs |-> TRUE,
         skip |-> "delete"]]

\* lines 209-215: submit every argument tuple to the pool
Dispatch ==
    /\ dpc = "dispatch"
    /\ args' = ManyArgs(manifest, cmd.force)
    /\ pc' = [t \in DOMAIN pc |-> IF t \in DOMAIN args' THEN "queued" ELSE pc[t]]
    /\ dpc' = "pool"
    /\ UNCHANGED <<cmd, manifest, exit_code, exc, context, mounted, smb,
                   old_files, idx, count, errs, walk, fs, fs0, log, reported>>

Running == {t \in DOMAIN pc : pc[t] \notin {"none", "queued", "done", "escaped"}}

\* Start on a pool without a bound on its workers
Start_NoLimit(t) ==
    /\ dpc = "pool"
    /\ pc[t] = "queued"
    /\ \A u \in DOMAIN pc : pc[u] = "queued" => t <= u
    /\ pc' = [pc EXCEPT ![t] = "resolve"]
    /\ Logged(t, Event("start", Root, TRUE, "none"))
    /\ UNCHANGED <<cmd, manifest, args, dpc, exit_code, exc, context, mounted,
                   smb, old_files, idx, count, errs, walk, fs, fs0, reported>>

\* a free worker of the pool takes the oldest queued task: _try_clean calls clean
Start(t) ==
    /\ dpc = "pool"
    /\ pc[t] = "queued"
    /\ \A u \in DOMAIN pc : pc[u] = "queued" => t <= u
    /\ Cardinality(Running) < max_workers
    /\ pc' = [pc EXCEPT ![t] = "resolve"]
    /\ Logged(t, Event("start", Root, TRUE, "none"))
    /\ UNCHANGED <<cmd, manifest, args, dpc, exit_code, exc, context, mounted,
                   smb, old_files, idx, count, errs, walk, fs, fs0, reported>>

\* TryCleanExcept catching typer.Exit only
TryCleanExcept_ExitOnly(t) ==
    /\ cmd.name = "clean_many"
    /\ pc[t] = "raised"
    /\ IF exc[t] \in {"Exit0", "Exit1"}
       THEN /\ pc' = [pc EXCEPT ![t] = "done"]
            /\ reported' = IF exc[t] = "Exit0" THEN reported ELSE reported \cup {t}
       ELSE /\ pc' = [pc EXCEPT ![t] = "escaped"]
            /\ UNCHANGED reported
    /\ UNCHANGED <<cmd, manifest, args, dpc, exit_code, exc, context, mounted,
                   smb, old_files, idx, count, errs, walk, fs, fs0, log>>

\* lines 222-225: the except clause of _try_clean
TryCleanExcept(t) ==
    /\ cmd.name = "clean_many"
    /\ pc[t] = "raised"
    /\ IF IsException(exc[t])
       THEN /\ pc' = [pc EXCEPT ![t] = "done"]
            /\ reported' = IF exc[t] = "Exit0" THEN reported ELSE reported \cup {t}
       ELSE /\ pc' = [pc EXCEPT ![t] = "escaped"]
            /\ UNCHANGED reported
    /\ UNCHANGED <<cmd, manifest, args, dpc, exit_code, exc, context, mounted,
                   smb, old_files, idx, count, errs, walk, fs, fs0, log>>

\* lines 209, 215: list(pool.map(...)) and the exit of the `with` block
Join ==
    /\ dpc = "pool"
    /\ \A t \in DOMAIN args : pc[t] \in {"done", "escaped"}
    /\ IF \E t \in DOMAIN args : pc[t] = "escaped"
       THEN dpc' = "failed" /\ exit_code' = 1
       ELSE dpc' = "returned" /\ exit_code' = 0
    /\ UNCHANGED <<cmd, manifest, args, pc, exc, context, mounted, smb,
                   old_files, idx, count, errs, walk, fs, fs0, log, reported>>

Next ==
    \/ \E t \in Stations :
          \/ Resolve(t)
          \/ Scan(t)
          \/ CheckEmpty(t)
          \/ CheckDryRun(t)
          \/ Confirm(t)
          \/ Delete(t)
          \/ CheckReap(t)
          \/ Reap(t)
          \/ Report(t)
          \/ Finally(t)
          \/ Start(t)
          \/ TryCleanExcept(t)
    \/ CleanExit
    \/ Dispatch
    \/ Join

Spec == Init /\ [][Next]_vars

(***************************************************************************)
(* `clean` alone, and `clean` invoked a second time on the same target.    *)
(***************************************************************************)
NextClean ==
    \/ \E t \in DOMAIN pc :
          \/ Resolve(t)
          \/ Scan(t)
          \/ CheckEmpty(t)
          \/ CheckDryRun(t)
          \/ Confirm(t)
          \/ Delete(t)
          \/ CheckReap(t)
          \/ Reap(t)
          \/ Report(t)
          \/ Finally(t)
    \/ CleanExit

\* what is remembered of a first run: whether it went through DELETE to its
\* summary, the exception it ended with, and whether any unlink did not succeed
FirstRun(l, summed, e) ==
    <<Event("first", Root, summed, e),
      Event("rerun", Root, \A k \in 1..Len(l) : l[k].op = "unlink" => l[k].ok, "none")>>

\* the same `imec clean` command line is run again once the first process has
\* ended; the directory tree is what the first run left
Rerun ==
    /\ dpc = "exited"
    /\ dpc' = "rerun"
    /\ exit_code' = -1
    /\ pc' = [pc EXCEPT ![1] = "resolve"]
    /\ log' = [log EXCEPT ![1] =
                  FirstRun(@, idx[1] >= 1 /\ exc[1] \in {"Exit0", "Exit1"}, exc[1])]
    /\ exc' = [exc EXCEPT ![1] = "none"]
    /\ context' = [context EXCEPT ![1] = "None"]
    /\ smb' = [smb EXCEPT ![1] = <<>>]
    /\ old_files' = [old_files EXCEPT ![1] = <<>>]
    /\ idx' = [idx EXCEPT ![1] = 0]
    /\ count' = [count EXCEPT ![1] = Unbound]
    /\ errs' = [errs EXCEPT ![1] = Unbound]
    /\ walk' = [walk EXCEPT ![1] = <<>>]
    /\ UNCHANGED <<cmd, manifest, args, mounted, fs, fs0, reported>>

\* lines 228-230: the exception of the second `clean` ends its process
RerunExit ==
    /\ dpc = "rerun"
    /\ pc[1] = "raised"
    /\ dpc' = "reexited"
    /\ exit_code' = ExitCode(exc[1])
    /\ pc' = [pc EXCEPT ![1] = "done"]
    /\ UNCHANGED <<cmd, manifest, args, exc, context, mounted, smb, old_files,
                   idx, count, errs, walk, fs, fs0, log, reported>>

NextTwice == NextClean \/ Rerun \/ RerunExit

\* the runs that are repeated: of a directory, local or mounted, with the
\* default skip
InitTwice ==
    /\ InitClean
    /\ args[1].directory \in {LocalDir, SMB \o <<"h">>}
    /\ args[1].skip = "delete"
    /\ fs[1].kind = "dir"

SpecTwice == InitTwice /\ [][NextTwice]_vars

(***************************************************************************)
(* `clean` of a remote target, over the addresses that can be written.     *)
(***************************************************************************)
AddrChars == {"u", "h", "d", "@", ":", "/"}

ExampleAddress ==
    SMB \o <<"A", "d", "m", "i", "n", "@", "1", "0", ".", "0", ".", "0", ".", "5",
             "/", "d", "a", "t", "a">>

Addresses ==
    {ExampleAddress} \cup
    UNION {{SMB \o b : b \in [1..n -> AddrChars]} : n \in 0..MaxAddr}

\* the share behind every address that can be mounted
AddrTree ==
    [kind |-> "dir", dirs |-> {<<"sub">>},
     files |-> [p \in {<<"sub", "c.tif">>} |-> 100]]

InitAddr ==
    /\ cmd = [name |-> "clean", force |-> FALSE]
    /\ manifest = <<>>
    /\ \E d \in Addresses :
          args = [t \in {1} |->
                     [directory |-> d, days |-> DefaultDays, dry_run |-> FALSE,
                      force |-> TRUE, delete_empty_dirs |-> TRUE, skip |-> "delete"]]
    /\ dpc = "clean"
    /\ pc = [t \in Stations |-> IF t = 1 THEN "resolve" ELSE "none"]
    /\ fs = [t \in Stations |-> IF t = 1 THEN AddrTree ELSE NoTree("missing")]
    /\ fs0 = fs
    /\ InitLocals

SpecAddr == InitAddr /\ [][NextClean]_vars

(***************************************************************************)
(* `clean-many` of a manifest with more stations than the pool has workers. *)
(***************************************************************************)
PoolStations == 1..(max_workers + PoolExtra)

\* the first station has an empty share, the last one a share with an old
\* file, and the hosts of the others do not answer
PoolTree(t) ==
    IF t = max_workers + PoolExtra
    THEN [kind |-> "dir", dirs |-> {<<"sub">>}, files |-> [p \in {<<"sub", "c.tif">>} |-> 100]]
    ELSE NoTree("missing")

InitPool ==
    /\ cmd = [name |-> "clean_many", force |-> TRUE]
    /\ manifest = [t \in PoolStations |-> <<"h">>]
    /\ args = <<>>
    /\ dpc = "dispatch"
    /\ pc = [t \in PoolStations |-> "none"]
    /\ fs = [t \in PoolStations |-> PoolTree(t)]
    /\ fs0 = fs
    /\ InitLocalsOver(PoolStations)

NextMany ==
    \/ \E t \in DOMAIN pc :
          \/ Resolve(t)
          \/ Scan(t)
          \/ CheckEmpty(t)
          \/ CheckDryRun(t)
          \/ Confirm(t)
          \/ Delete(t)
          \/ CheckReap(t)
          \/ Reap(t)
          \/ Report(t)
          \/ Finally(t)
          \/ Start(t)
          \/ TryCleanExcept(t)
    \/ Dispatch
    \/ Join

SpecPool == InitPool /\ [][NextMany]_vars

TypeOK ==
    /\ cmd.name \in {"clean", "clean_many"}
    /\ dpc \in {"clean", "exited", "rerun", "reexited", "dispatch", "pool",
               "returned", "failed"}
    /\ \A t \in DOMAIN pc :
          pc[t] \in {"none", "queued", "resolve", "scan", "check_empty",
                     "check_dry_run", "confirm", "delete", "check_reap", "reap",
                     "report", "finally", "raised", "done", "escaped"}

(***************************************************************************)
(* Properties.                                                             *)
(***************************************************************************)
Runs == DOMAIN args

\* positions in the log of run t of the events of the given operations
Ops(t, ops) == {k \in 1..Len(log[t]) : log[t][k].op \in ops}

FsOps == {"scan", "unlink", "walk", "rmdir"}

\* clean has been left by run t
Ended(t) == pc[t] \in {"raised", "done", "escaped"}

\* the paths of the unlink attempts of run t, in the order of the attempts
RECURSIVE UnlinkPaths(_)
UnlinkPaths(l) ==
    IF l = <<>> THEN <<>>
    ELSE IF Head(l).op = "unlink" THEN <<Head(l).path>> \o UnlinkPaths(Tail(l))
    ELSE UnlinkPaths(Tail(l))

IsPrefix(s, u) == Len(s) <= Len(u) /\ SubSeq(u, 1, Len(s)) = s

Succeeded(t, op) == {k \in Ops(t, {op}) : log[t][k].ok}

\* attempts of run t that failed with an error (an Exception)
Failed(t, op) ==
    {k \in Ops(t, {op}) :
        ~log[t][k].ok /\ (log[t][k].raised = "none" \/ IsException(log[t][k].raised))}

\* some exception left an operation of run t without being caught there
Escaped(t, op) == \E k \in Ops(t, {op}) : log[t][k].raised # "none"

\* an operation of run t was cut short by an interrupt of the process
Cancelled(t, op) ==
    \E k \in Ops(t, {op}) :
        log[t][k].raised # "none" /\ ~IsException(log[t][k].raised)

\* C1: a run whose mount was acquired releases it exactly once on every path
\* out of clean, never releases more often than it acquired, and has no mount
\* open once it has ended.
C1_MountReleasedOnce ==
    \A t \in Runs :
        /\ Cardinality(Ops(t, {"mount"})) <= 1
        /\ Cardinality(Ops(t, {"umount"})) <= Cardinality(Ops(t, {"mount"}))
        /\ mounted[t] => Ops(t, {"mount"}) # {} /\ Ops(t, {"umount"}) = {}
        /\ Ended(t) /\ Ops(t, {"mount"}) # {} =>
              Cardinality(Ops(t, {"umount"})) = 1 /\ ~mounted[t]

\* a remote run that deleted a file, then lost the directory walk to an error,
\* has ended
C1_Witness ==
    \E t \in Runs :
        /\ Ended(t)
        /\ Ops(t, {"mount"}) # {}
        /\ Succeeded(t, "unlink") # {}
        /\ Escaped(t, "walk")
        /\ exc[t] = "OSError"

\* C2: in a run on a remote target every access to the directory tree (scan,
\* unlink, walk, rmdir) comes after the mount and before the release.
C2_AccessWhileMounted ==
    \A t \in Runs :
        IsRemote(args[t].directory) =>
            \A k \in Ops(t, FsOps) :
                /\ \E m \in Ops(t, {"mount"}) : m < k
                /\ \A u \in Ops(t, {"umount"}) : k < u

\* a remote run has scanned, unlinked, walked and removed a directory, and ended
C2_Witness ==
    \E t \in Runs :
        /\ IsRemote(args[t].directory)
        /\ Ended(t)
        /\ \A op \in FsOps : Ops(t, {op}) # {}

\* C3: a run with dry_run set leaves the directory tree as it was, whatever
\* force and delete_empty_dirs are.
C3_DryRunDeletesNothing ==
    \A t \in Runs : args[t].dry_run => fs[t] = fs0[t]

\* a dry run with force and delete_empty_dirs set found candidates in a tree
\* that has an empty directory, and has ended
C3_Witness ==
    \E t \in Runs :
        /\ args[t].dry_run /\ args[t].force /\ args[t].delete_empty_dirs
        /\ old_files[t] # <<>>
        /\ \E d \in fs[t].dirs : IsEmptyDir(fs[t], d, args[t].skip)
        /\ Ended(t)

\* clean got past the confirmation of run t
Confirmed(t) == idx[t] >= 1

\* C4: with candidates found, dry-run wins over force and force over the
\* prompt: a dry run never prompts and never deletes and ends with Exit(0); a
\* forced run never prompts and goes on to delete; otherwise the prompt comes
\* before the first unlink, and after the answer no nothing is unlinked or
\* removed and the run aborts.
C4_ConfirmPrecedence ==
    \A t \in Runs :
        old_files[t] # <<>> =>
            /\ args[t].dry_run =>
                  /\ Ops(t, {"prompt", "unlink", "rmdir"}) = {}
                  /\ ~Confirmed(t)
                  /\ Ended(t) => exc[t] = "Exit0"
            /\ args[t].force /\ ~args[t].dry_run =>
                  /\ Ops(t, {"prompt"}) = {}
                  /\ Ended(t) => Confirmed(t) /\ Ops(t, {"unlink"}) # {}
            /\ ~args[t].force /\ ~args[t].dry_run =>
                  /\ \A k \in Ops(t, {"unlink", "walk", "rmdir"}) :
                        \E q \in Ops(t, {"prompt"}) : q < k /\ log[t][q].ok
                  /\ Cardinality(Ops(t, {"prompt"})) <= 1
                  /\ Ended(t) => Ops(t, {"prompt"}) # {}
                  /\ \A q \in Ops(t, {"prompt"}) :
                        ~log[t][q].ok =>
                            /\ Ops(t, {"unlink", "walk", "rmdir"}) = {}
                            /\ fs[t] = fs0[t]
                            /\ exc[t] = "Abort"
                            /\ pc[t] \in {"finally", "raised", "done"}

\* a run without force and dry_run was answered no and has ended
C4_Witness ==
    \E t \in Runs :
        /\ ~args[t].force /\ ~args[t].dry_run
        /\ Len(old_files[t]) >= 2
        /\ \E q \in Ops(t, {"prompt"}) : ~log[t][q].ok
        /\ Ended(t)

\* C5: at the summary the counters are the numbers of candidates whose unlink
\* succeeded and whose unlink failed.
C5_ReportCounts ==
    \A t \in Runs :
        pc[t] = "report" =>
            /\ count[t] = Cardinality(Succeeded(t, "unlink"))
            /\ errs[t] = Cardinality(Failed(t, "unlink"))

\* C6: the typer.Exit raised after DELETE carries 1 if the unlink of any
\* candidate failed and 0 if none did; rmdir failures do not matter.
C6_ExitCode ==
    \A t \in Runs :
        Confirmed(t) /\ exc[t] \in {"Exit0", "Exit1"} =>
            (exc[t] = "Exit1" <=> Failed(t, "unlink") # {})

\* the deletion loop of run t was entered and left without an interrupt
DeleteDone(t) == Confirmed(t) /\ pc[t] # "delete" /\ ~Cancelled(t, "unlink")

\* C7: the unlink attempts follow the candidate list, one attempt for each
\* candidate; a failed unlink is caught, so that once the loop is left every
\* candidate has been attempted exactly once and the run goes on.
C7_EveryCandidateAttempted ==
    \A t \in Runs :
        /\ IsPrefix(UnlinkPaths(log[t]), old_files[t])
        /\ DeleteDone(t) => UnlinkPaths(log[t]) = old_files[t]
        /\ \A k \in Ops(t, {"unlink"}) : ~IsException(log[t][k].raised)

\* the unlink of the first of two candidates failed, the second was deleted
\* and the run went on to its summary
C7_Witness ==
    \E t \in Runs :
        /\ Len(old_files[t]) = 2
        /\ pc[t] = "report"
        /\ \E j, k \in Ops(t, {"unlink"}) :
              j < k /\ ~log[t][j].ok /\ log[t][k].ok

\* C8: in clean_many no exception of a run leaves _try_clean, the dispatcher
\* does not fail, and it returns only when every dispatched run was started
\* and has ended.
C8_FailureIsolation ==
    cmd.name = "clean_many" =>
        /\ dpc # "failed"
        /\ \A t \in Stations : pc[t] # "escaped"
        /\ dpc = "returned" =>
              /\ exit_code = 0
              /\ \A t \in Runs : pc[t] = "done" /\ Ops(t, {"start"}) # {}
              /\ \A t \in Runs : exc[t] # "Exit0" <=> t \in reported

\* the dispatcher returned after one run died of a bad user name and another
\* run, refused by none, deleted a file
C8_Witness ==
    /\ dpc = "returned"
    /\ \E t, u \in Runs :
          /\ exc[t] = "ValueError"
          /\ Succeeded(u, "unlink") # {}

\* C9: clean_many starts one clean run for every entry with an address and
\* none for a null entry, and a null entry raises nothing.
C9_OneRunPerAddress ==
    cmd.name = "clean_many" =>
        /\ \A t \in Stations :
              /\ Cardinality(Ops(t, {"start"})) <= 1
              /\ (t \notin DOMAIN manifest \/ manifest[t] = NULL) =>
                    pc[t] = "none" /\ log[t] = <<>> /\ exc[t] = "none"
        /\ dpc = "returned" =>
              \A t \in DOMAIN manifest :
                  manifest[t] # NULL => Cardinality(Ops(t, {"start"})) = 1

\* the dispatcher returned from a manifest of one address and one null
C9_Witness ==
    /\ dpc = "returned"
    /\ Len(manifest) = 2
    /\ manifest[1] \in Hosts
    /\ manifest[2] = NULL
    /\ Ops(1, {"start"}) # {}

\* C10: the directory walk starts, and any rmdir happens, only when every
\* candidate has had its unlink attempt, and no unlink follows them.
C10_DeleteBeforeReap ==
    \A t \in Runs :
        /\ (pc[t] = "reap" \/ Ops(t, {"walk", "rmdir"}) # {}) =>
              UnlinkPaths(log[t]) = old_files[t]
        /\ \A k \in Ops(t, {"walk", "rmdir"}) :
              \A u \in Ops(t, {"unlink"}) : u < k

\* a directory emptied by the deletion of its only file was removed
C10_Witness ==
    \E t \in Runs :
        \E k \in Succeeded(t, "rmdir") :
            /\ Entries(fs0[t], log[t][k].path) # {}
            /\ \E u \in Succeeded(t, "unlink") :
                  Parent(log[t][u].path) = log[t][k].path

\* C11: when the scan yields no candidate the run ends with Exit(0): nothing is
\* prompted, unlinked, walked or removed, whatever delete_empty_dirs is, the
\* exit code of `clean` is 0 and the mount of a remote target is released.
C11_NoCandidatesSkips ==
    \A t \in Runs :
        Succeeded(t, "scan") # {} /\ old_files[t] = <<>> =>
            /\ Ops(t, {"prompt", "unlink", "walk", "rmdir"}) = {}
            /\ fs[t] = fs0[t]
            /\ pc[t] \in {"check_empty", "finally", "raised", "done"}
            /\ pc[t] # "check_empty" => exc[t] = "Exit0"
            /\ Ended(t) =>
                  /\ ~mounted[t]
                  /\ IsRemote(args[t].directory) => Cardinality(Ops(t, {"umount"})) = 1
            /\ dpc = "exited" => exit_code = 0

\* a remote run with delete_empty_dirs set found no candidate in a tree that
\* has an empty directory to remove, and has ended
C11_Witness ==
    \E t \in Runs :
        /\ IsRemote(args[t].directory)
        /\ args[t].delete_empty_dirs /\ ~args[t].dry_run
        /\ Succeeded(t, "scan") # {} /\ old_files[t] = <<>>
        /\ \E d \in fs[t].dirs : IsEmptyDir(fs[t], d, args[t].skip)
        /\ Ended(t)
        /\ dpc = "exited"

\* a second invocation of run t has begun
Rerunning(t) == Ops(t, {"rerun"}) # {}

\* the first invocation went through DELETE to its summary
FirstReported(t) == \E k \in Ops(t, {"first"}) : log[t][k].ok

\* no unlink of the first invocation failed or was cut short
FirstDeletedAll(t) == \E k \in Ops(t, {"rerun"}) : log[t][k].ok

\* the scan of the second invocation has returned its list
SecondScanned(t) == Rerunning(t) /\ Succeeded(t, "scan") # {}

Resolved(t) == pc[t] \notin {"none", "queued", "resolve"}

\* C13: a local target that does not exist or is not a directory makes the run
\* fail: it ends with an error, not with the exit code of success.
C13_LocalResolveFails ==
    \A t \in Runs :
        ~IsRemote(args[t].directory) /\ fs0[t].kind # "dir" /\ Resolved(t) =>
            /\ exc[t] \notin {"none", "Exit0"}
            /\ dpc = "exited" => exit_code # 0

\* the resolution of the target of run t failed
ResolveFailed(t) ==
    /\ Resolved(t)
    /\ IF IsRemote(args[t].directory)
       THEN exc[t] \in {"MountError", "ValueError"}
       ELSE fs0[t].kind # "dir"

\* C14: a run whose resolution failed (local path missing or not a directory,
\* bad address, mount not acquired) has left clean at once: nothing was scanned,
\* unlinked or removed, and no mount was torn down.
C14_ResolveFailureAborts ==
    \A t \in Runs :
        ResolveFailed(t) =>
            /\ Ended(t)
            /\ Ops(t, FsOps \cup {"prompt", "mount", "umount"}) = {}
            /\ fs[t] = fs0[t]
            /\ ~mounted[t]

\* the mount of a share that holds an old file failed, and the run has ended
C14_Witness ==
    \E t \in Runs :
        /\ exc[t] = "MountError"
        /\ OldFiles(fs[t], args[t].days, args[t].skip) # {}
        /\ Ended(t)

\* the part of an address between smb:// and the first '/'
HostPart(directory) ==
    LET body == Drop(directory, 6)
        slash == FirstIndex(body, "/", 1)
    IN  IF slash = 0 THEN body ELSE SubSeq(body, 1, slash - 1)

AtSigns(directory) == {k \in 1..Len(HostPart(directory)) : HostPart(directory)[k] = "@"}

\* the user part of an address: what stands before the last '@' of the host part
UserPart(directory) ==
    IF AtSigns(directory) = {} THEN <<>>
    ELSE LET last == CHOOSE k \in AtSigns(directory) : \A j \in AtSigns(directory) : j <= k
         IN  SubSeq(HostPart(directory), 1, last - 1)

\* C15: a remote address whose user part contains ':' is rejected with a
\* ValueError before anything is mounted, scanned or deleted.
C15_ColonUserRejected ==
    \A t \in Runs :
        /\ IsRemote(args[t].directory)
        /\ HasChar(":", UserPart(args[t].directory))
        /\ Resolved(t)
        => /\ exc[t] = "ValueError"
           /\ Ended(t)
           /\ smb[t] = <<>>
           /\ Ops(t, FsOps \cup {"mount", "umount", "prompt"}) = {}
           /\ ~mounted[t]
           /\ fs[t] = fs0[t]

\* the run on smb://u:@h, whose share holds an old file, has ended
C15_Witness ==
    \E t \in Runs :
        /\ args[t].directory = SMB \o <<"u", ":", "@", "h">>
        /\ OldFiles(fs[t], args[t].days, args[t].skip) # {}
        /\ exc[t] = "ValueError"
        /\ dpc = "exited"

\* the host part with its '/share' and what follows taken off the address
AfterHost(directory) == Drop(Drop(directory, 6), Len(HostPart(directory)))

\* the first path segment of an address that has a '/' after its host part
FirstSegment(directory) ==
    LET path == Tail(AfterHost(directory))
        slash == FirstIndex(path, "/", 1)
    IN  IF slash = 0 THEN path ELSE SubSeq(path, 1, slash - 1)

\* C16: smb://[user@]host[/share] is mounted with the user before '@', the
\* host after it and the first path segment as share; without 'user@' the user
\* is Admin and without '/share' the share is data.
C16_AddressParts ==
    \A t \in Runs :
        LET d == args[t].directory
            at == CHOOSE k \in AtSigns(d) : TRUE
        IN  /\ IsRemote(d)
            /\ Resolved(t)
            /\ Cardinality(AtSigns(d)) <= 1
            /\ ~HasChar(":", UserPart(d))
            => /\ smb[t] # <<>>
               /\ smb[t][1] = (IF AtSigns(d) = {} THEN HostPart(d)
                               ELSE Drop(HostPart(d), at))
               /\ smb[t][2] = (IF AfterHost(d) = <<>> THEN <<"d", "a", "t", "a">>
                               ELSE FirstSegment(d))
               /\ smb[t][3] = (IF AtSigns(d) = {} THEN <<"A", "d", "m", "i", "n">>
                               ELSE UserPart(d))

\* smb://Admin@10.0.0.5/data was resolved to host 10.0.0.5, share data and user
\* Admin
C16_Witness ==
    \E t \in Runs :
        /\ args[t].directory = ExampleAddress
        /\ Resolved(t)
        /\ smb[t] = << <<"1", "0", ".", "0", ".", "0", ".", "5">>,
                       <<"d", "a", "t", "a">>,
                       <<"A", "d", "m", "i", "n">> >>

\* run t went through DELETE and REAP to its summary
ReapDone(t) ==
    /\ args[t].delete_empty_dirs
    /\ Confirmed(t)
    /\ pc[t] \in {"report", "finally", "raised", "done"}
    /\ exc[t] \in {"none", "Exit0", "Exit1"}

\* C17: without delete_empty_dirs no directory is visited or removed; with it,
\* no failure of a rmdir leaves the loop, so that a run whose walk was not cut
\* short reaches its summary with every directory that is still an empty
\* candidate having had its removal attempted.
C17_ReapFailureCaught ==
    \A t \in Runs :
        /\ ~args[t].delete_empty_dirs =>
              Ops(t, {"walk", "rmdir"}) = {} /\ fs[t].dirs = fs0[t].dirs
        /\ \A k \in Ops(t, {"rmdir"}) : log[t][k].raised = "none"
        /\ Failed(t, "rmdir") # {} /\ Ended(t) /\ ~Escaped(t, "walk") =>
              exc[t] \in {"Exit0", "Exit1"}
        /\ ReapDone(t) =>
              \A d \in fs[t].dirs :
                  IsEmptyDir(fs[t], d, args[t].skip) =>
                      \E k \in Failed(t, "rmdir") : log[t][k].path = d

\* the removal of a first empty directory failed, that of a later one
\* succeeded, and the run is at its summary
C17_Witness ==
    \E t \in Runs :
        /\ pc[t] = "report"
        /\ \E j, k \in Ops(t, {"rmdir"}) :
              j < k /\ ~log[t][j].ok /\ log[t][k].ok

\* the step releases the mount of run t
Releases(t) == mounted[t] /\ ~mounted'[t]

\* C18: in clean_many a mount is released only by a step of the run that holds
\* it, its finally clause, and by no step of another run; when the dispatcher
\* has returned every run is done and has released the mount it acquired.
C18_MountOwnedByRun ==
    /\ [](cmd.name = "clean_many" /\ dpc = "returned" =>
             \A t \in Runs :
                 /\ pc[t] = "done"
                 /\ ~mounted[t]
                 /\ Cardinality(Ops(t, {"umount"})) = Cardinality(Ops(t, {"mount"})))
    /\ [][cmd.name = "clean_many" =>
             \A t \in DOMAIN pc :
                 Releases(t) =>
                     /\ pc[t] = "finally" /\ pc'[t] = "raised"
                     /\ context[t] = "mount"
                     /\ \A u \in DOMAIN pc \ {t} :
                           mounted'[u] = mounted[u] /\ pc'[u] = pc[u]]_vars

\* the dispatcher returned after two runs had each mounted and released their
\* share, one of them reported as failed
C18_Witness ==
    /\ cmd.name = "clean_many"
    /\ dpc = "returned"
    /\ \E t, u \in Runs :
          /\ t # u
          /\ Ops(t, {"umount"}) # {} /\ Ops(u, {"umount"}) # {}
          /\ t \in reported /\ u \notin reported

\* the runs dispatched before run t
Earlier(t) == {u \in Runs : u < t}

\* C19: at most 8 clean runs are in progress and at most 8 mounts are open at
\* any moment, and a run is started only when fewer than 8 of the runs
\* dispatched before it have yet to end.
C19_AtMostEightRuns ==
    /\ Cardinality(Running) <= 8
    /\ Cardinality({t \in DOMAIN mounted : mounted[t]}) <= 8
    /\ \A t \in DOMAIN mounted : mounted[t] => t \in Running
    /\ \A t \in Runs :
          Ops(t, {"start"}) # {} =>
              Cardinality({u \in Earlier(t) : pc[u] \notin {"done", "escaped"}}) < 8

\* a ninth run has been started while seven earlier runs are in progress
C19_Witness ==
    \E t \in Runs :
        /\ Cardinality(Earlier(t)) >= 8
        /\ Ops(t, {"start"}) # {}
        /\ t \in Running
        /\ Cardinality(Running) = 8

====
